---- MODULE Spec2Model ----
(***************************************************************************)
(* Event/Handler publish-subscribe library (namespace evnt).               *)
(*                                                                         *)
(* A Handler owns a callable (m_function) and the list of Events it is     *)
(* subscribed to (m_subscribedTo); an Event owns the list of Handlers it   *)
(* notifies (m_handler).  Both lists hold raw pointers: the model names an *)
(* object by its storage slot and keeps, per slot, whether an object has   *)
(* been constructed there and whether it has been destroyed.               *)
(***************************************************************************)
EXTENDS Integers, Sequences, FiniteSets, TLC

\* ------------------------------------------------------------------ bounds
NumHandlers == 3
NumEvents == 2
MaxSubscriptions == 3
MaxArg == 2

Handlers == 1..NumHandlers
Events == 1..NumEvents
Args == 1..MaxArg

\* a default-constructed std::function: calling it throws std::bad_function_call
NoFunction == 0

VARIABLES
    hState,          \* Handler slot -> "unborn" | "live" | "dead"
    eState,          \* Event slot   -> "unborn" | "live" | "dead"
    m_function,      \* Handler -> id of the callable it wraps (NoFunction: empty)
    m_subscribedTo,  \* Handler -> Seq(Event)
    m_handler,       \* Event -> Seq(Handler)
    subscribedAt,    \* Event -> Seq(Nat), parallel to m_handler: the age rank of
                     \* each entry among the entries present (1: pushed first)
    calls,           \* the Handler::invoke calls of the last Event::invoke pass
    last,            \* the last operation: [op, x, y, arg, result, k, again]; k is
                     \* the number of entries the operation found, again whether the
                     \* operation before it was the same one on the same objects
    fault            \* TRUE once an operation has used a destroyed object or an
                     \* invalidated iterator

vars == <<hState, eState, m_function, m_subscribedTo, m_handler, subscribedAt,
          calls, last, fault>>

\* --------------------------------------------------------- std:: helpers
\* number of positions of s that hold x
Count(s, x) == Cardinality({i \in 1..Len(s) : s[i] = x})

\* the past-the-end position of a vector
end(s) == Len(s) + 1

\* std::find(s.begin(), s.end(), x): the first position holding x, or end(s)
find(s, x) ==
    IF \E i \in 1..Len(s) : s[i] = x
    THEN CHOOSE i \in 1..Len(s) : s[i] = x /\ \A j \in 1..(i - 1) : s[j] # x
    ELSE end(s)

\* std::vector::erase(it)
erase(s, it) == [i \in 1..(Len(s) - 1) |-> IF i < it THEN s[i] ELSE s[i + 1]]

\* std::vector::push_back(x)
push_back(s, x) == Append(s, x)

\* subscribedAt after a push_back on m_handler: the new entry is the youngest
stampPush(t) == Append(t, Len(t) + 1)

\* subscribedAt after erase(it) on m_handler: the entries younger than the erased
\* one move up one rank
stampErase(t, it) ==
    [i \in 1..(Len(t) - 1) |->
        LET r == IF i < it THEN t[i] ELSE t[i + 1] IN
        IF r > t[it] THEN r - 1 ELSE r]

\* The object graph the operations work on.
Graph == [m_handler |-> m_handler, subscribedAt |-> subscribedAt,
          m_subscribedTo |-> m_subscribedTo, m_function |-> m_function]

\* ------------------------------------------------------ Handler, private
\* removeEvent erasing every entry for e (std::remove and erase to the end)
Handler_removeEvent_all(G, this, e) ==
    [G EXCEPT !.m_subscribedTo[this] = SelectSeq(@, LAMBDA z : z # e)]

\* Handler::removeEvent(e)
Handler_removeEvent(G, this, e) ==
    LET it == find(G.m_subscribedTo[this], e) IN
    IF it # end(G.m_subscribedTo[this])
    THEN [G EXCEPT !.m_subscribedTo[this] = erase(@, it)]
    ELSE G

\* Handler::addEvent(e)
Handler_addEvent(G, this, e) ==
    [G EXCEPT !.m_subscribedTo[this] = push_back(@, e)]

\* -------------------------------------------------------- Event, private
\* subscribeConstHandler inserting at begin() instead of push_back
Event_subscribeConstHandler_front(G, this, handler) ==
    [G EXCEPT !.m_handler[this] = <<handler>> \o @,
              !.subscribedAt[this] = <<Len(@) + 1>> \o @]

\* Event::subscribeConstHandler(handler)
Event_subscribeConstHandler(G, this, handler) ==
    [G EXCEPT !.m_handler[this] = push_back(@, handler),
              !.subscribedAt[this] = stampPush(@)]

\* Event::unsubscribeConstHandler(handler)
Event_unsubscribeConstHandler(G, this, handler) ==
    LET it == find(G.m_handler[this], handler) IN
    IF it = end(G.m_handler[this])
    THEN G
    ELSE [G EXCEPT !.m_handler[this] = erase(@, it),
                   !.subscribedAt[this] = stampErase(@, it)]


\* ------------------------------------------------------- Handler, public
\* the loop leaving after its first iteration
Handler_unsubscribeLoop_firstOnly(G, es, h) ==
    IF es = <<>> THEN G ELSE Event_unsubscribeConstHandler(G, Head(es), h)

\* for (auto e : es) e->unsubscribeConstHandler(h);
RECURSIVE Handler_unsubscribeLoop(_, _, _)
Handler_unsubscribeLoop(G, es, h) ==
    IF es = <<>> THEN G
    ELSE Handler_unsubscribeLoop(Event_unsubscribeConstHandler(G, Head(es), h),
                                 Tail(es), h)

\* the loop leaving after its first iteration
Handler_subscribeLoop_firstOnly(G, es, h) ==
    IF es = <<>> THEN G ELSE Event_subscribeConstHandler(G, Head(es), h)

\* for (auto e : es) e->subscribeConstHandler(h);
RECURSIVE Handler_subscribeLoop(_, _, _)
Handler_subscribeLoop(G, es, h) ==
    IF es = <<>> THEN G
    ELSE Handler_subscribeLoop(Event_subscribeConstHandler(G, Head(es), h),
                               Tail(es), h)

\* reset clearing m_subscribedTo without telling the Events
Handler_reset_clearOnly(G, this) ==
    [G EXCEPT !.m_subscribedTo[this] = <<>>]

\* reset handling the first subscription only
Handler_reset_firstOnly(G, this) ==
    IF G.m_subscribedTo[this] = <<>> THEN G
    ELSE LET G1 == Event_unsubscribeConstHandler(G, Head(G.m_subscribedTo[this]), this)
         IN  [G1 EXCEPT !.m_subscribedTo[this] = Tail(@)]

\* Handler::reset()
Handler_reset(G, this) ==
    LET G1 == Handler_unsubscribeLoop(G, G.m_subscribedTo[this], this) IN
    [G1 EXCEPT !.m_subscribedTo[this] = <<>>]

\* swap without the last loop: other is not re-subscribed
Handler_swap_noResubscribeOther(G, this, other) ==
    LET G1 == Handler_unsubscribeLoop(G, G.m_subscribedTo[this], this)
        G2 == Handler_unsubscribeLoop(G1, G1.m_subscribedTo[other], other)
        G3 == [G2 EXCEPT !.m_subscribedTo[this] = G2.m_subscribedTo[other],
                         !.m_subscribedTo[other] = G2.m_subscribedTo[this],
                         !.m_function[this] = G2.m_function[other],
                         !.m_function[other] = G2.m_function[this]]
    IN  Handler_subscribeLoop(G3, G3.m_subscribedTo[this], this)

\* swap exchanging the subscriptions but not the callables
Handler_swap_keepFunctions(G, this, other) ==
    LET G1 == Handler_unsubscribeLoop(G, G.m_subscribedTo[this], this)
        G2 == Handler_unsubscribeLoop(G1, G1.m_subscribedTo[other], other)
        G3 == [G2 EXCEPT !.m_subscribedTo[this] = G2.m_subscribedTo[other],
                         !.m_subscribedTo[other] = G2.m_subscribedTo[this]]
        G4 == Handler_subscribeLoop(G3, G3.m_subscribedTo[this], this)
    IN  Handler_subscribeLoop(G4, G4.m_subscribedTo[other], other)

\* swap copying the callable of other into this instead of exchanging the two
Handler_swap_copyFunction(G, this, other) ==
    LET G1 == Handler_unsubscribeLoop(G, G.m_subscribedTo[this], this)
        G2 == Handler_unsubscribeLoop(G1, G1.m_subscribedTo[other], other)
        G3 == [G2 EXCEPT !.m_subscribedTo[this] = G2.m_subscribedTo[other],
                         !.m_subscribedTo[other] = G2.m_subscribedTo[this],
                         !.m_function[this] = G2.m_function[other]]
        G4 == Handler_subscribeLoop(G3, G3.m_subscribedTo[this], this)
    IN  Handler_subscribeLoop(G4, G4.m_subscribedTo[other], other)

\* Handler::swap(other)
Handler_swap(G, this, other) ==
    LET G1 == Handler_unsubscribeLoop(G, G.m_subscribedTo[this], this)
        G2 == Handler_unsubscribeLoop(G1, G1.m_subscribedTo[other], other)
        \* std::swap(m_subscribedTo, other.m_subscribedTo); std::swap(m_function, ...)
        G3 == [G2 EXCEPT !.m_subscribedTo[this] = G2.m_subscribedTo[other],
                         !.m_subscribedTo[other] = G2.m_subscribedTo[this],
                         !.m_function[this] = G2.m_function[other],
                         !.m_function[other] = G2.m_function[this]]
        G4 == Handler_subscribeLoop(G3, G3.m_subscribedTo[this], this)
    IN  Handler_subscribeLoop(G4, G4.m_subscribedTo[other], other)

\* Handler::invoke(args): m_function(args); an empty std::function throws
Handler_invoke(G, this, args) ==
    [throws |-> G.m_function[this] = NoFunction,
     call |-> [h |-> this, f |-> G.m_function[this], args |-> args]]

\* --------------------------------------------------------- Event, public
\* for (auto h : hs) h->removeEvent(e);
RECURSIVE Event_removeLoop(_, _, _)
Event_removeLoop(G, hs, e) ==
    IF hs = <<>> THEN G
    ELSE Event_removeLoop(Handler_removeEvent(G, Head(hs), e), Tail(hs), e)

\* for (auto h : hs) h->addEvent(e);
RECURSIVE Event_addLoop(_, _, _)
Event_addLoop(G, hs, e) ==
    IF hs = <<>> THEN G
    ELSE Event_addLoop(Handler_addEvent(G, Head(hs), e), Tail(hs), e)

\* a pass that swallows the exception of a reaction and goes on with the next entry
RECURSIVE Event_invokeFrom_swallow(_, _, _, _)
Event_invokeFrom_swallow(G, this, args, i) ==
    IF i = end(G.m_handler[this])
    THEN [calls |-> <<>>, result |-> "done", stale |-> <<>>]
    ELSE LET c == Handler_invoke(G, G.m_handler[this][i], args)
             rest == Event_invokeFrom_swallow(G, this, args, i + 1)
         IN  IF c.throws THEN rest ELSE [rest EXCEPT !.calls = <<c.call>> \o @]

\* Event::invoke(args), from position i of m_handler: the calls made and how the
\* pass ended ("done"; "failed": a reaction threw; "uaf": the entry is a
\* destroyed Handler, and stale is the call made through it)
RECURSIVE Event_invokeFrom(_, _, _, _)
Event_invokeFrom(G, this, args, i) ==
    IF i = end(G.m_handler[this])
    THEN [calls |-> <<>>, result |-> "done", stale |-> <<>>]
    ELSE LET h == G.m_handler[this][i] IN
         IF hState[h] = "dead"
         THEN [calls |-> <<>>, result |-> "uaf", stale |-> Handler_invoke(G, h, args).call]
         ELSE LET c == Handler_invoke(G, h, args) IN
              IF c.throws
              THEN [calls |-> <<>>, result |-> "failed", stale |-> <<>>]
              ELSE LET rest == Event_invokeFrom(G, this, args, i + 1) IN
                   [rest EXCEPT !.calls = <<c.call>> \o @]

\* invoke starting at the second entry
Event_invoke_skipFirst(G, this, args) ==
    IF G.m_handler[this] = <<>>
    THEN [calls |-> <<>>, result |-> "done", stale |-> <<>>]
    ELSE Event_invokeFrom(G, this, args, 2)

\* Event::invoke(args)
Event_invoke(G, this, args) == Event_invokeFrom(G, this, args, 1)

\* Event::subscribe(HandlerT* handler)
Event_subscribe(G, this, handler) ==
    Handler_addEvent(Event_subscribeConstHandler(G, this, handler), handler, this)

\* unsubscribe without the end() check: a miss erases the entry before end()
Event_unsubscribe_noEndCheck(G, this, handler) ==
    LET found == find(G.m_handler[this], handler)
        it == IF found = end(G.m_handler[this]) THEN found - 1 ELSE found
    IN  IF it = 0
        THEN G
        ELSE LET G1 == Handler_removeEvent(G, G.m_handler[this][it], this) IN
             [G1 EXCEPT !.m_handler[this] = erase(@, it),
                        !.subscribedAt[this] = stampErase(@, it)]

\* subscribe(function) returning a Handler that was never registered: the local
\* is destroyed without its registration being handed over
Event_subscribeFunction_noMove(G, this, function, h, ret) ==
    LET G1 == [G EXCEPT !.m_function[h] = function]
        G2 == Event_subscribe(G1, this, h)
    IN  IF ret = h THEN G2
        ELSE [Handler_reset(G2, h) EXCEPT !.m_function[h] = NoFunction,
                                          !.m_function[ret] = function]

\* Event::subscribe(std::function function):
\*     HandlerT h(move(function)); subscribe(&h); return h;
\* h is the slot of the local and ret the slot of the value the caller receives:
\* ret = h when the copy is elided; otherwise ret is move-constructed from h
\* (Handler(Handler&&): swap) and h is destroyed (~Handler: reset).
Event_subscribeFunction(G, this, function, h, ret) ==
    LET G1 == [G EXCEPT !.m_function[h] = function]
        G2 == Event_subscribe(G1, this, h)
    IN  IF ret = h THEN G2
        ELSE [Handler_reset(Handler_swap(G2, ret, h), h)
                 EXCEPT !.m_function[h] = NoFunction]

\* Event::unsubscribe(handler)
Event_unsubscribe(G, this, handler) ==
    LET it == find(G.m_handler[this], handler) IN
    IF it = end(G.m_handler[this])
    THEN G
    ELSE LET G1 == Handler_removeEvent(G, G.m_handler[this][it], this) IN
         [G1 EXCEPT !.m_handler[this] = erase(@, it),
                    !.subscribedAt[this] = stampErase(@, it)]

\* reset clearing m_handler without telling the Handlers
Event_reset_clearOnly(G, this) ==
    [G EXCEPT !.m_handler[this] = <<>>, !.subscribedAt[this] = <<>>]

\* Event::reset()
Event_reset(G, this) ==
    LET G1 == Event_removeLoop(G, G.m_handler[this], this) IN
    [G1 EXCEPT !.m_handler[this] = <<>>, !.subscribedAt[this] = <<>>]

\* swap without the last loop: the Handlers now in other are not told
Event_swap_noAddOther(G, this, other) ==
    LET G1 == Event_removeLoop(G, G.m_handler[this], this)
        G2 == Event_removeLoop(G1, G1.m_handler[other], other)
        G3 == [G2 EXCEPT !.m_handler[this] = G2.m_handler[other],
                         !.m_handler[other] = G2.m_handler[this],
                         !.subscribedAt[this] = G2.subscribedAt[other],
                         !.subscribedAt[other] = G2.subscribedAt[this]]
    IN  Event_addLoop(G3, G3.m_handler[this], this)

\* what a detaching reaction does when it is called during a pass over Event
\* this: this.unsubscribe(&t), or t.reset()
Reaction_detach(G, this, react) ==
    IF react.kind = "unsubscribe"
    THEN Event_unsubscribe(G, this, react.t)
    ELSE Handler_reset(G, react.t)

\* Event::invoke(args) when the reaction react.f detaches Handler react.t:
\*     for (auto h : m_handler) h->invoke(args...);
\* The range-for takes begin() and end() once. P.it is the position of the
\* iterator, P.endIt the end() taken at the start, P.mem the storage of the
\* vector: its first Len(m_handler) cells are the vector, the cells behind them
\* keep what erase left there. erase invalidates the iterator and the cached
\* end(); using them afterwards is undefined. A build with checked iterators
\* (react.checked) stops the program at that use; a build with plain pointers
\* walks the storage up to the old end().
RECURSIVE Event_invokeDetach(_, _, _, _, _)
Event_invokeDetach(G, this, args, P, react) ==
    IF P.invalidated /\ react.checked
    THEN [G |-> G, calls |-> <<>>, result |-> "stopped", invalidated |-> TRUE]
    ELSE IF P.it = P.endIt
    THEN [G |-> G, calls |-> <<>>, invalidated |-> P.invalidated,
          result |-> IF P.past THEN "past the end" ELSE "done"]
    ELSE LET c == Handler_invoke(G, P.mem[P.it], args) IN
         IF c.throws
         THEN [G |-> G, calls |-> <<>>, result |-> "failed",
               invalidated |-> P.invalidated]
         ELSE LET G1 == IF c.call.f = react.f THEN Reaction_detach(G, this, react)
                        ELSE G
                  n == Len(G1.m_handler[this])
                  P1 == [it |-> P.it + 1,
                         endIt |-> P.endIt,
                         mem |-> G1.m_handler[this] \o SubSeq(P.mem, n + 1, Len(P.mem)),
                         invalidated |-> P.invalidated
                                           \/ G1.m_handler[this] # G.m_handler[this],
                         past |-> P.past \/ P.it > Len(G.m_handler[this])]
                  rest == Event_invokeDetach(G1, this, args, P1, react)
              IN  [rest EXCEPT !.calls = <<c.call>> \o @]

\* Event::swap(other)
Event_swap(G, this, other) ==
    LET G1 == Event_removeLoop(G, G.m_handler[this], this)
        G2 == Event_removeLoop(G1, G1.m_handler[other], other)
        \* std::swap(m_handler, other.m_handler)
        G3 == [G2 EXCEPT !.m_handler[this] = G2.m_handler[other],
                         !.m_handler[other] = G2.m_handler[this],
                         !.subscribedAt[this] = G2.subscribedAt[other],
                         !.subscribedAt[other] = G2.subscribedAt[this]]
        G4 == Event_addLoop(G3, G3.m_handler[this], this)
    IN  Event_addLoop(G4, G4.m_handler[other], other)


\* ---------------------------------------------------------------- state
Range(s) == {s[i] : i \in 1..Len(s)}

LiveHandlers == {h \in Handlers : hState[h] = "live"}
LiveEvents == {e \in Events : eState[e] = "live"}

\* Objects are constructed in the order of their storage slots: the slot of the
\* next object, or 0 when every slot has been used.
NextHandler ==
    IF \E h \in Handlers : hState[h] = "unborn"
    THEN CHOOSE h \in Handlers :
            hState[h] = "unborn" /\ \A g \in 1..(h - 1) : hState[g] # "unborn"
    ELSE 0
NextEvent ==
    IF \E e \in Events : eState[e] = "unborn"
    THEN CHOOSE e \in Events :
            eState[e] = "unborn" /\ \A g \in 1..(e - 1) : eState[g] # "unborn"
    ELSE 0

NoOp == [op |-> "none", x |-> 0, y |-> 0, arg |-> 0, result |-> "none",
         k |-> 0, again |-> FALSE]
Did(op, x, y, k) ==
    [op |-> op, x |-> x, y |-> y, arg |-> 0, result |-> "done", k |-> k,
     again |-> (last.op = op /\ last.x = x /\ last.y = y)]

Init ==
    /\ hState = [h \in Handlers |-> "unborn"]
    /\ eState = [e \in Events |-> "unborn"]
    /\ m_function = [h \in Handlers |-> NoFunction]
    /\ m_subscribedTo = [h \in Handlers |-> <<>>]
    /\ m_handler = [e \in Events |-> <<>>]
    /\ subscribedAt = [e \in Events |-> <<>>]
    /\ calls = <<>>
    /\ last = NoOp
    /\ fault = FALSE

\* The graph an operation leaves. An operation that calls through a pointer to a
\* destroyed Handler or Event has undefined behaviour: it either went through on
\* the stale storage (G2) or stopped before changing anything.
Store(G2, usedH, usedE) ==
    LET uaf == \/ \E h \in usedH : hState[h] = "dead"
               \/ \E e \in usedE : eState[e] = "dead"
    IN  /\ fault' = uaf
        /\ \E G3 \in (IF uaf THEN {G2, Graph} ELSE {G2}) :
              /\ m_handler' = G3.m_handler
              /\ subscribedAt' = G3.subscribedAt
              /\ m_subscribedTo' = G3.m_subscribedTo
              /\ m_function' = G3.m_function

\* Handler h(function);
ConstructHandler(h) ==
    /\ ~fault
    /\ h = NextHandler
    /\ hState' = [hState EXCEPT ![h] = "live"]
    /\ m_function' = [m_function EXCEPT ![h] = h]
    /\ last' = Did("Handler", h, 0, 0)
    /\ calls' = <<>>
    /\ UNCHANGED <<eState, m_subscribedTo, m_handler, subscribedAt, fault>>

\* Event e;
ConstructEvent(e) ==
    /\ ~fault
    /\ e = NextEvent
    /\ eState' = [eState EXCEPT ![e] = "live"]
    /\ last' = Did("Event", e, 0, 0)
    /\ calls' = <<>>
    /\ UNCHANGED <<hState, m_function, m_subscribedTo, m_handler, subscribedAt,
                   fault>>

\* the number of entries of the lists of f, a function from 1..n to sequences
RECURSIVE SumLen(_, _)
SumLen(f, n) == IF n = 0 THEN 0 ELSE Len(f[n]) + SumLen(f, n - 1)
Subscriptions == SumLen(m_handler, NumEvents)

\* a graph whose lists are within the bound
Bounded(G) ==
    /\ SumLen(G.m_handler, NumEvents) <= MaxSubscriptions
    /\ SumLen(G.m_subscribedTo, NumHandlers) <= MaxSubscriptions

\* e.subscribe(&h)
Subscribe(e, h) ==
    /\ ~fault
    /\ eState[e] = "live" /\ hState[h] = "live"
    /\ Subscriptions < MaxSubscriptions
    /\ Store(Event_subscribe(Graph, e, h), {}, {})
    /\ last' = Did("subscribe", e, h, Count(m_handler[e], h))
    /\ calls' = <<>>
    /\ UNCHANGED <<hState, eState>>

\* e.unsubscribe(&h)
Unsubscribe(e, h) ==
    /\ ~fault
    /\ eState[e] = "live" /\ hState[h] = "live"
    /\ Store(Event_unsubscribe(Graph, e, h), {}, {})
    /\ last' = Did("unsubscribe", e, h, Count(m_handler[e], h))
    /\ calls' = <<>>
    /\ UNCHANGED <<hState, eState>>

\* h.reset()
HandlerReset(h) ==
    /\ ~fault
    /\ hState[h] = "live"
    /\ Store(Handler_reset(Graph, h), {}, Range(m_subscribedTo[h]))
    /\ last' = Did("Handler.reset", h, 0, Len(m_subscribedTo[h]))
    /\ calls' = <<>>
    /\ UNCHANGED <<hState, eState>>

\* e.reset()
EventReset(e) ==
    /\ ~fault
    /\ eState[e] = "live"
    /\ Store(Event_reset(Graph, e), Range(m_handler[e]), {})
    /\ last' = Did("Event.reset", e, 0, Len(m_handler[e]))
    /\ calls' = <<>>
    /\ UNCHANGED <<hState, eState>>

\* ~Handler(): reset(), then the members are destroyed
DestroyHandler(h) ==
    /\ ~fault
    /\ hState[h] = "live"
    /\ Store([Handler_reset(Graph, h) EXCEPT !.m_function[h] = NoFunction],
             {}, Range(m_subscribedTo[h]))
    /\ hState' = [hState EXCEPT ![h] = "dead"]
    /\ last' = Did("~Handler", h, 0, Len(m_subscribedTo[h]))
    /\ calls' = <<>>
    /\ UNCHANGED eState

\* ~Event(): reset(), then the members are destroyed
DestroyEvent(e) ==
    /\ ~fault
    /\ eState[e] = "live"
    /\ Store(Event_reset(Graph, e), Range(m_handler[e]), {})
    /\ eState' = [eState EXCEPT ![e] = "dead"]
    /\ last' = Did("~Event", e, 0, Len(m_handler[e]))
    /\ calls' = <<>>
    /\ UNCHANGED hState

\* e.invoke(a). Calling through a destroyed Handler is undefined: the pass either
\* stops there or runs whatever the stale storage holds.
Invoke(e, a) ==
    /\ ~fault
    /\ eState[e] = "live"
    /\ LET r == Event_invoke(Graph, e, a) IN
       /\ calls' \in (IF r.result = "uaf"
                      THEN {r.calls, Append(r.calls, r.stale)}
                      ELSE {r.calls})
       /\ last' = [op |-> "invoke", x |-> e, y |-> 0, arg |-> a, result |-> r.result,
                   k |-> Len(m_handler[e]), again |-> FALSE]
       /\ fault' = (r.result = "uaf")
    /\ UNCHANGED <<hState, eState, m_function, m_subscribedTo, m_handler,
                   subscribedAt>>


\* a.swap(b), two distinct Handlers; a = std::move(b) is swap(b); return *this
HandlerSwap(a, b) ==
    /\ ~fault
    /\ a # b
    /\ hState[a] = "live" /\ hState[b] = "live"
    /\ Store(Handler_swap(Graph, a, b), {},
             Range(m_subscribedTo[a]) \cup Range(m_subscribedTo[b]))
    /\ last' = Did("Handler.swap", a, b, 0)
    /\ calls' = <<>>
    /\ UNCHANGED <<hState, eState>>

\* x.swap(y), two distinct Events; x = std::move(y) is swap(y); return *this
EventSwap(x, y) ==
    /\ ~fault
    /\ x # y
    /\ eState[x] = "live" /\ eState[y] = "live"
    /\ Store(Event_swap(Graph, x, y), Range(m_handler[x]) \cup Range(m_handler[y]), {})
    /\ last' = Did("Event.swap", x, y, 0)
    /\ calls' = <<>>
    /\ UNCHANGED <<hState, eState>>

\* Handler dst(std::move(src)): the members are default-constructed, then swap(src)
HandlerMoveConstruct(dst, src) ==
    /\ ~fault
    /\ dst = NextHandler /\ hState[src] = "live"
    /\ hState' = [hState EXCEPT ![dst] = "live"]
    /\ Store(Handler_swap(Graph, dst, src), {}, Range(m_subscribedTo[src]))
    /\ last' = Did("Handler(Handler&&)", dst, src, 0)
    /\ calls' = <<>>
    /\ UNCHANGED eState

\* Event dst(std::move(src)): m_handler is default-constructed, then swap(src)
EventMoveConstruct(dst, src) ==
    /\ ~fault
    /\ dst = NextEvent /\ eState[src] = "live"
    /\ eState' = [eState EXCEPT ![dst] = "live"]
    /\ Store(Event_swap(Graph, dst, src), Range(m_handler[src]), {})
    /\ last' = Did("Event(Event&&)", dst, src, 0)
    /\ calls' = <<>>
    /\ UNCHANGED hState

\* dst = std::move(src), two distinct Handlers: swap(src); return *this
HandlerMoveAssign(dst, src) ==
    /\ ~fault
    /\ dst # src
    /\ hState[dst] = "live" /\ hState[src] = "live"
    /\ Store(Handler_swap(Graph, dst, src), {},
             Range(m_subscribedTo[dst]) \cup Range(m_subscribedTo[src]))
    /\ last' = Did("Handler.operator=", dst, src, Len(m_subscribedTo[dst]))
    /\ calls' = <<>>
    /\ UNCHANGED <<hState, eState>>

\* dst = std::move(src), two distinct Events: swap(src); return *this
EventMoveAssign(dst, src) ==
    /\ ~fault
    /\ dst # src
    /\ eState[dst] = "live" /\ eState[src] = "live"
    /\ Store(Event_swap(Graph, dst, src),
             Range(m_handler[dst]) \cup Range(m_handler[src]), {})
    /\ last' = Did("Event.operator=", dst, src, Len(m_handler[dst]))
    /\ calls' = <<>>
    /\ UNCHANGED <<hState, eState>>

\* auto r = e.subscribe(function), the std::function overload. Whether the return
\* value is built in place or moved out of the local is the compiler's choice.
SubscribeFunction(e, h, ret) ==
    /\ ~fault
    /\ eState[e] = "live"
    /\ Subscriptions < MaxSubscriptions
    /\ h = NextHandler
    /\ ret \in {h, h + 1} \cap Handlers
    /\ hState' = [g \in Handlers |->
                     IF g = ret THEN "live" ELSE IF g = h THEN "dead" ELSE hState[g]]
    /\ Store(Event_subscribeFunction(Graph, e, h, h, ret), {}, {})
    /\ last' = Did("subscribe(function)", e, ret, Len(m_handler[e]))
    /\ calls' = <<>>
    /\ UNCHANGED eState

\* e.invoke(a) where the reaction f, when called, detaches Handler t from e:
\* it calls e.unsubscribe(&t) or t.reset()
InvokeDetaching(e, a, f, kind, t, checked) ==
    /\ ~fault
    /\ eState[e] = "live" /\ hState[t] = "live"
    /\ \E i \in 1..Len(m_handler[e]) : m_function[m_handler[e][i]] = f
    /\ LET P == [it |-> 1, endIt |-> end(m_handler[e]), mem |-> m_handler[e],
                 invalidated |-> FALSE, past |-> FALSE]
           react == [f |-> f, kind |-> kind, t |-> t, checked |-> checked]
           r == Event_invokeDetach(Graph, e, a, P, react)
       IN  /\ calls' = r.calls
           /\ m_handler' = r.G.m_handler
           /\ subscribedAt' = r.G.subscribedAt
           /\ m_subscribedTo' = r.G.m_subscribedTo
           /\ m_function' = r.G.m_function
           /\ fault' = r.invalidated
           /\ last' = [op |-> "invoke.detach", x |-> e, y |-> t, arg |-> a,
                       result |-> r.result, k |-> Len(m_handler[e]), again |-> FALSE]
    /\ UNCHANGED <<hState, eState>>

\* h.swap(h), or h = std::move(h)
HandlerSelfSwap(h) ==
    /\ ~fault
    /\ hState[h] = "live"
    /\ Bounded(Handler_swap(Graph, h, h))
    /\ Store(Handler_swap(Graph, h, h), {}, Range(m_subscribedTo[h]))
    /\ last' = Did("Handler.swap", h, h, 0)
    /\ calls' = <<>>
    /\ UNCHANGED <<hState, eState>>

\* e.swap(e), or e = std::move(e)
EventSelfSwap(e) ==
    /\ ~fault
    /\ eState[e] = "live"
    /\ Bounded(Event_swap(Graph, e, e))
    /\ Store(Event_swap(Graph, e, e), Range(m_handler[e]), {})
    /\ last' = Did("Event.swap", e, e, 0)
    /\ calls' = <<>>
    /\ UNCHANGED <<hState, eState>>

\* ------------------------------------------------------- specifications
\* construction, subscribe, unsubscribe and invoke only
NextSubscribe ==
    \/ \E h \in Handlers : ConstructHandler(h)
    \/ \E e \in Events : ConstructEvent(e)
    \/ \E e \in Events, h \in Handlers : Subscribe(e, h)
    \/ \E e \in Events, h \in Handlers : Unsubscribe(e, h)
    \/ \E e \in Events, a \in Args : Invoke(e, a)

SpecSubscribe == Init /\ [][NextSubscribe]_vars

\* every public operation, swap and move on two distinct objects
Next ==
    \/ NextSubscribe
    \/ \E h \in Handlers : HandlerReset(h)
    \/ \E e \in Events : EventReset(e)
    \/ \E h \in Handlers : DestroyHandler(h)
    \/ \E e \in Events : DestroyEvent(e)
    \/ \E a, b \in Handlers : HandlerSwap(a, b)
    \/ \E x, y \in Events : EventSwap(x, y)
    \/ \E dst, src \in Handlers : HandlerMoveConstruct(dst, src)
    \/ \E dst, src \in Events : EventMoveConstruct(dst, src)

Spec == Init /\ [][Next]_vars

\* subscribe, invoke, destruction, and swap or move assignment of an object with
\* itself
NextSelf ==
    \/ \E h \in Handlers : ConstructHandler(h)
    \/ \E e \in Events : ConstructEvent(e)
    \/ \E e \in Events, h \in Handlers : Subscribe(e, h)
    \/ \E e \in Events, a \in Args : Invoke(e, a)
    \/ \E h \in Handlers : DestroyHandler(h)
    \/ \E e \in Events : DestroyEvent(e)
    \/ \E h \in Handlers : HandlerSelfSwap(h)
    \/ \E e \in Events : EventSelfSwap(e)

SpecSelf == Init /\ [][NextSelf]_vars


\* construction, subscribe, invoke, destruction and move assignment between two
\* distinct objects
NextMove ==
    \/ \E h \in Handlers : ConstructHandler(h)
    \/ \E e \in Events : ConstructEvent(e)
    \/ \E e \in Events, h \in Handlers : Subscribe(e, h)
    \/ \E e \in Events, a \in Args : Invoke(e, a)
    \/ \E h \in Handlers : DestroyHandler(h)
    \/ \E e \in Events : DestroyEvent(e)
    \/ \E dst, src \in Handlers : HandlerMoveAssign(dst, src)
    \/ \E dst, src \in Events : EventMoveAssign(dst, src)

SpecMove == Init /\ [][NextMove]_vars

\* construction, both subscribe overloads, invoke and destruction of Handlers
NextFunction ==
    \/ \E h \in Handlers : ConstructHandler(h)
    \/ \E e \in Events : ConstructEvent(e)
    \/ \E e \in Events, h \in Handlers : Subscribe(e, h)
    \/ \E e \in Events, h, ret \in Handlers : SubscribeFunction(e, h, ret)
    \/ \E e \in Events, a \in Args : Invoke(e, a)
    \/ \E h \in Handlers : DestroyHandler(h)

SpecFunction == Init /\ [][NextFunction]_vars

\* construction, subscribe, unsubscribe, invoke, and invoke with a reaction that
\* detaches a Handler of the Event being invoked
NextReentrant ==
    \/ NextSubscribe
    \/ \E h \in Handlers : HandlerReset(h)
    \/ \E e \in Events, a \in Args, f \in Handlers, t \in Handlers :
          \E kind \in {"unsubscribe", "reset"}, checked \in BOOLEAN :
              InvokeDetaching(e, a, f, kind, t, checked)

SpecReentrant == Init /\ [][NextReentrant]_vars

\* construction, subscribe, invoke, and swap of two distinct objects
NextSwap ==
    \/ \E h \in Handlers : ConstructHandler(h)
    \/ \E e \in Events : ConstructEvent(e)
    \/ \E e \in Events, h \in Handlers : Subscribe(e, h)
    \/ \E e \in Events, a \in Args : Invoke(e, a)
    \/ \E a, b \in Handlers : HandlerSwap(a, b)
    \/ \E x, y \in Events : EventSwap(x, y)

SpecSwap == Init /\ [][NextSwap]_vars

\* ----------------------------------------------------------- properties
\* s without its entries for x, the others in their order
Without(s, x) == SelectSeq(s, LAMBDA z : z # x)

\* s without its first entry for x
WithoutFirst(s, x) ==
    LET i == CHOOSE j \in 1..Len(s) : s[j] = x /\ \A k \in 1..(j - 1) : s[k] # x
    IN  SubSeq(s, 1, i - 1) \o SubSeq(s, i + 1, Len(s))

\* C1: after every operation (swap and move on two distinct objects), every live
\* Handler h occurs in the subscribers of every live Event e as often as e occurs
\* in the subscriptions of h.
C1_Mirror ==
    \A h \in LiveHandlers, e \in LiveEvents :
        Count(m_handler[e], h) = Count(m_subscribedTo[h], e)

\* two Handlers registered with the same Event have just been swapped
C1_Witness ==
    /\ last.op = "Handler.swap"
    /\ \E e \in LiveEvents : {last.x, last.y} \subseteq Range(m_handler[e])

\* C2: no live Event lists a destroyed Handler, no live Handler lists a destroyed
\* Event, and no operation has called through a pointer to a destroyed object.
C2_NoDangling ==
    /\ ~fault
    /\ \A e \in LiveEvents : \A h \in Range(m_handler[e]) : hState[h] # "dead"
    /\ \A h \in LiveHandlers : \A e \in Range(m_subscribedTo[h]) : eState[e] # "dead"

\* what every step keeps for C3 (stated below)
C3_Step ==
    /\ \A e \in Events : \A i, j \in 1..Len(subscribedAt'[e]) :
          i < j => subscribedAt'[e][i] < subscribedAt'[e][j]
    /\ last'.op = "invoke" =>
          /\ last'.result = "done"
          /\ [i \in 1..Len(calls') |-> calls'[i].h] = m_handler'[last'.x]
    /\ last'.op = "subscribe" =>
          m_handler'[last'.x] = Append(m_handler[last'.x], last'.y)
    /\ (last'.op = "unsubscribe" /\ Count(m_handler[last'.x], last'.y) = 1) =>
          m_handler'[last'.x] = Without(m_handler[last'.x], last'.y)

\* C3: under subscribe and unsubscribe the entries of an Event stay in the order
\* of the subscribe calls that pushed them, invoke calls the Handlers in that
\* order, subscribe puts the Handler after every entry that was there, and
\* unsubscribing a Handler subscribed once leaves the others in their order.
C3_InvocationOrder == [][C3_Step]_vars

\* a pass has called a later-constructed Handler before an earlier-constructed one
C3_Witness ==
    /\ last.op = "invoke"
    /\ Len(calls) >= 2
    /\ calls[1].h > calls[2].h

\* C4: a pass that ran to its end has called every Handler as often as it occurs
\* in the subscribers of the Event, each call on that Handler's reaction and
\* with the arguments of invoke.
C4_InvokeCounts ==
    (last.op = "invoke" /\ last.result = "done") =>
        /\ \A h \in Handlers :
              Cardinality({i \in 1..Len(calls) : calls[i].h = h})
                 = Count(m_handler[last.x], h)
        /\ \A i \in 1..Len(calls) :
              /\ calls[i].args = last.arg
              /\ calls[i].f = m_function[calls[i].h]

\* a pass over an Event that lists one Handler twice and another Handler once
C4_Witness ==
    /\ last.op = "invoke" /\ last.result = "done"
    /\ Len(calls) = 3
    /\ \E h \in Handlers : Count(m_handler[last.x], h) = 2

\* what every step keeps for C5 (stated below)
C5_Step ==
    /\ last'.op = "~Handler" =>
          /\ ~fault'
          /\ \A e \in Events : m_handler'[e] = Without(m_handler[e], last'.x)
    /\ \A e \in Events : \A h \in Range(m_handler'[e]) : hState'[h] = "live"
    /\ last'.op = "invoke" =>
          /\ last'.result \in {"done", "failed"}
          /\ \A i \in 1..Len(calls') : hState'[calls'[i].h] = "live"
          /\ last'.result = "failed" =>
                \E g \in Range(m_handler'[last'.x]) : m_function'[g] = NoFunction

\* C5: destroying a Handler removes each of its entries from every Event and
\* leaves the other entries in their order; no Event lists a destroyed Handler,
\* and a pass never calls one and fails only when a listed Handler's own
\* reaction fails.
C5_ScopeCleanup == [][C5_Step]_vars

\* a subscribed Handler has been destroyed and an Event still lists two others
C5_Witness ==
    /\ last.op = "~Handler" /\ last.k >= 1
    /\ \E e \in LiveEvents :
          Len(m_handler[e]) = 2 /\ m_handler[e][1] # m_handler[e][2]

\* what every step keeps for C6 (stated below)
C6_Step ==
    (last'.op = "unsubscribe" /\ Count(m_handler[last'.x], last'.y) = 0) =>
        /\ ~fault' /\ last'.result = "done"
        /\ m_handler' = m_handler
        /\ m_subscribedTo' = m_subscribedTo
        /\ m_function' = m_function

\* C6: unsubscribe of a Handler the Event does not list fails nowhere and changes
\* no list of any Event or Handler.
C6_UnsubscribeAbsent == [][C6_Step]_vars

\* the second of two unsubscribe calls for a Handler that another Event lists
C6_Witness ==
    /\ last.op = "unsubscribe" /\ last.k = 0 /\ last.again
    /\ m_subscribedTo[last.y] # <<>>

\* what every step keeps for C7 (stated below)
C7_Step ==
    LET e == last'.x
        h == last'.y
    IN  (last'.op = "unsubscribe" /\ Count(m_handler[e], h) >= 1) =>
            /\ m_handler'[e] = WithoutFirst(m_handler[e], h)
            /\ Count(m_handler'[e], h) = Count(m_handler[e], h) - 1
            /\ Count(m_subscribedTo'[h], e) = Count(m_subscribedTo[h], e) - 1
            /\ Without(m_subscribedTo'[h], e) = Without(m_subscribedTo[h], e)
            /\ \A e2 \in Events \ {e} : m_handler'[e2] = m_handler[e2]
            /\ \A h2 \in Handlers \ {h} : m_subscribedTo'[h2] = m_subscribedTo[h2]
            /\ m_function' = m_function

\* C7: unsubscribe of a Handler the Event lists k >= 1 times erases the first of
\* its entries in the Event and one entry for the Event in the Handler, and
\* changes nothing else.
C7_UnsubscribeFirst == [][C7_Step]_vars

\* a Handler listed twice has been unsubscribed once: its second entry is left,
\* behind another Handler's
C7_Witness ==
    /\ last.op = "unsubscribe" /\ last.k = 2
    /\ Len(m_handler[last.x]) = 2
    /\ m_handler[last.x][1] # last.y
    /\ m_handler[last.x][2] = last.y

\* what every step keeps for C8 (stated below)
C8_Step ==
    /\ last'.op = "Handler.reset" =>
          /\ m_subscribedTo'[last'.x] = <<>>
          /\ \A e \in Events : m_handler'[e] = Without(m_handler[e], last'.x)
          /\ \A h2 \in Handlers \ {last'.x} : m_subscribedTo'[h2] = m_subscribedTo[h2]
          /\ m_function' = m_function
    /\ last'.op = "invoke" =>
          \A i \in 1..Len(calls') :
              last'.x \in Range(m_subscribedTo'[calls'[i].h])

\* C8: Handler::reset empties the Handler's subscriptions, erases each of its
\* entries from every Event and leaves the other entries, the other Handlers and
\* the reactions as they were; a pass calls only Handlers that list the Event.
C8_HandlerReset == [][C8_Step]_vars

\* a Handler with two subscriptions has been reset and an Event still lists another
C8_Witness ==
    /\ last.op = "Handler.reset" /\ last.k >= 2
    /\ \E e \in LiveEvents : m_handler[e] # <<>>

\* what every step keeps for C9 (stated below)
C9_Step ==
    /\ last'.op = "Event.reset" =>
          /\ m_handler'[last'.x] = <<>>
          /\ \A h \in Handlers :
                m_subscribedTo'[h] = Without(m_subscribedTo[h], last'.x)
          /\ \A e2 \in Events \ {last'.x} : m_handler'[e2] = m_handler[e2]
          /\ hState' = hState /\ m_function' = m_function
    /\ (last'.op = "invoke" /\ m_handler'[last'.x] = <<>>) => calls' = <<>>
    /\ (last.op = "Event.reset" /\ last'.op = "subscribe" /\ last'.x = last.x) =>
          /\ m_handler'[last'.x] = <<last'.y>>
          /\ Count(m_subscribedTo'[last'.y], last'.x) = 1

\* C9: Event::reset empties the Event's subscribers, erases each entry for the
\* Event from every Handler, destroys nothing and leaves the other Events and
\* the Handlers' other subscriptions as they were; a pass over an empty Event
\* calls nothing, and subscribe on the Event just reset registers the Handler once.
C9_EventReset == [][C9_Step]_vars

\* an Event listing two entries has been reset and a Handler still lists another Event
C9_Witness ==
    /\ last.op = "Event.reset" /\ last.k >= 2
    /\ \E h \in LiveHandlers : m_subscribedTo[h] # <<>>

\* what every step keeps for C10 (stated below)
C10_Step ==
    LET same == /\ m_handler' = m_handler
                /\ m_subscribedTo' = m_subscribedTo
                /\ m_function' = m_function
    IN  /\ (/\ last'.op = "Handler.reset"
            /\ \/ last.op = "Handler.reset" /\ last.x = last'.x
               \/ m_subscribedTo[last'.x] = <<>>) => same
        /\ (/\ last'.op = "Event.reset"
            /\ \/ last.op = "Event.reset" /\ last.x = last'.x
               \/ m_handler[last'.x] = <<>>) => same

\* C10: reset of a Handler or an Event that was just reset, or that has no
\* relationships, changes no list of any Event or Handler.
C10_ResetIdempotent == [][C10_Step]_vars

\* a Handler has been reset twice in a row while an Event lists another Handler
C10_Witness ==
    /\ last.op = "Handler.reset" /\ last.again
    /\ \E e \in LiveEvents : m_handler[e] # <<>>

\* what every step keeps for C11 (stated below)
C11_Step ==
    LET a == last'.x
        b == last'.y
    IN  (last'.op = "Handler.swap" /\ a # b) =>
            /\ m_function'[a] = m_function[b]
            /\ m_function'[b] = m_function[a]
            /\ \A e \in Events :
                  /\ Count(m_handler'[e], a) = Count(m_handler[e], b)
                  /\ Count(m_handler'[e], b) = Count(m_handler[e], a)
                  /\ Count(m_subscribedTo'[a], e) = Count(m_subscribedTo[b], e)
                  /\ Count(m_subscribedTo'[b], e) = Count(m_subscribedTo[a], e)
                  /\ \A h \in Handlers :
                        Count(m_handler'[e], h) = Count(m_subscribedTo'[h], e)
            /\ \A h \in Handlers \ {a, b} :
                  /\ m_function'[h] = m_function[h]
                  /\ m_subscribedTo'[h] = m_subscribedTo[h]
                  /\ \A e \in Events : Count(m_handler'[e], h) = Count(m_handler[e], h)

\* C11: a.swap(b) on two distinct Handlers exchanges their callables; in every
\* Event a then occurs as often as b did before and b as often as a did (also
\* when both were in the same Event); the subscriptions of a and b are exchanged
\* as multisets; every Event lists every Handler exactly as often as the Handler
\* lists the Event; the other Handlers keep what they had.
C11_HandlerSwap == [][C11_Step]_vars

\* two Handlers registered a different number of times with the same Event have
\* just been swapped
C11_Witness ==
    /\ last.op = "Handler.swap" /\ last.x # last.y
    /\ \E e \in LiveEvents :
          /\ Count(m_handler[e], last.x) >= 1
          /\ Count(m_handler[e], last.y) >= 1
          /\ Count(m_handler[e], last.x) # Count(m_handler[e], last.y)

\* what every step keeps for C12 (stated below)
C12_Step ==
    LET x == last'.x
        y == last'.y
    IN  (last'.op = "Event.swap" /\ x # y) =>
            /\ m_handler'[x] = m_handler[y]
            /\ m_handler'[y] = m_handler[x]
            /\ \A h \in Handlers :
                  /\ Count(m_subscribedTo'[h], x) = Count(m_subscribedTo[h], y)
                  /\ Count(m_subscribedTo'[h], y) = Count(m_subscribedTo[h], x)
                  /\ Len(m_subscribedTo'[h]) = Len(m_subscribedTo[h])
                  /\ m_function'[h] = m_function[h]

\* C12: x.swap(y) on two distinct Events leaves in x exactly the sequence of
\* Handlers y had (same Handlers, order and multiplicity) and in y the sequence x
\* had, and every Handler lists x as often as it listed y before and y as often
\* as it listed x (also a Handler registered in both).
C12_EventSwap == [][C12_Step]_vars

\* two Events have just been swapped; one of them lists two different Handlers,
\* and a Handler is registered in both
C12_Witness ==
    /\ last.op = "Event.swap" /\ last.x # last.y
    /\ \E i, j \in 1..Len(m_handler[last.x]) : m_handler[last.x][i] # m_handler[last.x][j]
    /\ Range(m_handler[last.x]) \cap Range(m_handler[last.y]) # {}

\* what every step keeps for C13 (stated below)
C13_Step ==
    LET dst == last'.x
        src == last'.y
    IN  /\ last'.op = "Handler(Handler&&)" =>
            /\ m_subscribedTo'[src] = <<>>
            /\ m_function'[dst] = m_function[src]
            /\ \A e \in Events :
                  /\ Count(m_subscribedTo'[dst], e) = Count(m_subscribedTo[src], e)
                  /\ Count(m_handler'[e], dst) = Count(m_subscribedTo[src], e)
                  /\ Count(m_handler'[e], src) = 0
                  /\ \A h \in Handlers \ {dst, src} :
                        Count(m_handler'[e], h) = Count(m_handler[e], h)
        /\ last'.op = "Event(Event&&)" =>
            /\ m_handler'[src] = <<>>
            /\ m_handler'[dst] = m_handler[src]
            /\ \A h \in Handlers :
                  /\ Count(m_subscribedTo'[h], dst) = Count(m_handler[src], h)
                  /\ Count(m_subscribedTo'[h], src) = 0
                  /\ \A e \in Events \ {dst, src} :
                        Count(m_subscribedTo'[h], e) = Count(m_subscribedTo[h], e)

\* C13: move construction of a Handler (or an Event) leaves the source without
\* relationships and gives the new object the relationships the source had, each
\* partner as often as before; every partner lists the new object instead of the
\* source, and no partner lists the source any more.
C13_MoveConstruct == [][C13_Step]_vars

\* a Handler has been move-constructed from one that was registered twice with an
\* Event that lists another Handler too
C13_Witness ==
    /\ last.op = "Handler(Handler&&)"
    /\ \E e \in LiveEvents :
          /\ Count(m_handler[e], last.x) = 2
          /\ Len(m_handler[e]) = 3

\* an Event has been move-constructed from one that listed two different Handlers
C13_WitnessEvent ==
    /\ last.op = "Event(Event&&)"
    /\ \E i, j \in 1..Len(m_handler[last.x]) : m_handler[last.x][i] # m_handler[last.x][j]

\* what C14 says of every step (stated below)
C14_Step ==
    LET dst == last'.x
        src == last'.y
    IN  /\ last'.op = "Handler.operator=" =>
            /\ m_subscribedTo'[src] = <<>>
            /\ \A e \in Events :
                  /\ Count(m_handler'[e], src) = 0
                  /\ Count(m_handler'[e], dst) = Count(m_handler[e], src)
                  /\ Count(m_subscribedTo'[dst], e) = Count(m_subscribedTo[src], e)
        /\ last'.op = "Event.operator=" =>
            /\ m_handler'[src] = <<>>
            /\ m_handler'[dst] = m_handler[src]
            /\ \A h \in Handlers :
                  /\ Count(m_subscribedTo'[h], src) = 0
                  /\ Count(m_subscribedTo'[h], dst) = Count(m_subscribedTo[h], src)

\* C14: after dst = std::move(src) on two distinct Handlers (or Events), whatever
\* dst held before, src has no relationships, as after reset(), and dst holds
\* exactly the relationships src held before the assignment.
C14_MoveAssign == [][C14_Step]_vars

\* what move assignment does: the two objects exchange their relationships, so
\* the source ends with what the destination held
C14_SwapStep ==
    LET dst == last'.x
        src == last'.y
    IN  /\ last'.op = "Handler.operator=" =>
            /\ m_function'[src] = m_function[dst]
            /\ \A e \in Events :
                  /\ Count(m_handler'[e], src) = Count(m_handler[e], dst)
                  /\ Count(m_handler'[e], dst) = Count(m_handler[e], src)
                  /\ Count(m_subscribedTo'[src], e) = Count(m_subscribedTo[dst], e)
                  /\ Count(m_subscribedTo'[dst], e) = Count(m_subscribedTo[src], e)
        /\ last'.op = "Event.operator=" =>
            /\ m_handler'[src] = m_handler[dst]
            /\ m_handler'[dst] = m_handler[src]
C14_MoveAssignSwaps == [][C14_SwapStep]_vars

\* what every step keeps for C15 (stated below)
C15_Step ==
    LET e == last'.x
        h == last'.y
    IN  /\ last'.op = "subscribe(function)" =>
            /\ hState'[h] = "live"
            /\ m_handler'[e] = Append(m_handler[e], h)
            /\ Count(m_handler'[e], h) = 1
            /\ m_subscribedTo'[h] = <<e>>
            /\ m_function'[h] = NextHandler
            /\ \A g \in Handlers \ {h} :
                  /\ hState'[g] # hState[g] =>
                        /\ hState'[g] = "dead"
                        /\ m_subscribedTo'[g] = <<>>
                        /\ \A e2 \in Events : Count(m_handler'[e2], g) = 0
                  /\ hState'[g] = hState[g] => m_subscribedTo'[g] = m_subscribedTo[g]
            /\ \A e2 \in Events \ {e} : m_handler'[e2] = m_handler[e2]
        /\ last'.op = "~Handler" =>
            \A e2 \in Events : m_handler'[e2] = Without(m_handler[e2], last'.x)

\* C15: after r = e.subscribe(function), whether the returned Handler was built
\* in place or moved out of the local of the call, e lists r exactly once and as
\* its last entry, lists no temporary of the call, r lists e exactly once and
\* holds the reaction; destroying a Handler removes its entries from the Events.
C15_SubscribeFunction == [][C15_Step]_vars

\* subscribe(function) has returned a Handler moved out of the local, into an
\* Event that already listed another Handler
C15_Witness ==
    /\ last.op = "subscribe(function)"
    /\ last.y > 1 /\ hState[last.y - 1] = "dead"
    /\ m_function[last.y] = last.y - 1
    /\ Len(m_handler[last.x]) >= 2

\* the Handler returned by subscribe(function) has been destroyed, and the Event
\* keeps its other entry
C15_WitnessDestroyed ==
    /\ last.op = "~Handler" /\ last.k = 1
    /\ m_function[last.x] = NoFunction
    /\ \E e \in LiveEvents : m_handler[e] # <<>>

\* what every step keeps for C16 (stated below)
C16_Step ==
    LET e == last'.x
        s == m_handler[e]
        failing == {i \in 1..Len(s) : m_function[s[i]] = NoFunction}
    IN  (last'.op = "invoke" /\ \A i \in 1..Len(s) : hState[s[i]] = "live") =>
            /\ last'.result = "failed" <=> failing # {}
            /\ last'.result = "failed" =>
                  LET i == CHOOSE j \in failing : \A k \in failing : j <= k IN
                  /\ calls' = [j \in 1..(i - 1) |->
                                  [h |-> s[j], f |-> m_function[s[j]], args |-> last'.arg]]
                  /\ m_handler' = m_handler
                  /\ m_subscribedTo' = m_subscribedTo
                  /\ m_function' = m_function
                  /\ ~fault'

\* C16: when the reaction of the i-th entry of an Event fails during invoke (an
\* empty std::function throws std::bad_function_call), the pass ends as failed
\* for the caller, the entries before i have been called once each in their
\* order, no entry after i has been called, and no list of any Event or Handler
\* has changed.
C16_FailurePropagation == [][C16_Step]_vars

\* a pass has failed at its second entry, after one call and with a third entry
\* left uncalled
C16_Witness ==
    /\ last.op = "invoke" /\ last.result = "failed"
    /\ Len(calls) = 1
    /\ Len(m_handler[last.x]) = 3
    /\ m_function[m_handler[last.x][3]] # NoFunction

\* what C17 says of every step (stated below)
C17_Step ==
    (last'.op \in {"Handler.swap", "Event.swap"} /\ last'.x = last'.y) =>
        /\ m_handler' = m_handler
        /\ m_subscribedTo' = m_subscribedTo
        /\ \A h \in Handlers, e \in Events :
              (hState'[h] = "live" /\ eState'[e] = "live") =>
                  Count(m_handler'[e], h) = Count(m_subscribedTo'[h], e)

\* C17: h.swap(h) or h = std::move(h) on a Handler with a subscription, and
\* e.swap(e) or e = std::move(e) on an Event with a subscriber, leave every
\* m_handler and m_subscribedTo list as it was, so that every live Event still
\* lists every live Handler as often as the Handler lists the Event.
C17_SelfSwap == [][C17_Step]_vars

\* what swap of an object with itself does when the object and its partners
\* listed each other equally often: the partners list the object twice as often
\* as before, the object's own list is unchanged
C17_DoublesStep ==
    LET x == last'.x IN
    /\ (/\ last'.op = "Handler.swap" /\ x = last'.y
        /\ \A e \in Events : Count(m_handler[e], x) = Count(m_subscribedTo[x], e)) =>
          /\ m_subscribedTo' = m_subscribedTo
          /\ \A e \in Events : Count(m_handler'[e], x) = 2 * Count(m_handler[e], x)
    /\ (/\ last'.op = "Event.swap" /\ x = last'.y
        /\ \A h \in Handlers : Count(m_subscribedTo[h], x) = Count(m_handler[x], h)) =>
          /\ m_handler' = m_handler
          /\ \A h \in Handlers :
                Count(m_subscribedTo'[h], x) = 2 * Count(m_subscribedTo[h], x)
C17_SelfSwapDoubles == [][C17_DoublesStep]_vars

\* the number of calls made to Handler h in the pass cs
CallsTo(cs, h) == Cardinality({i \in 1..Len(cs) : cs[i].h = h})

\* what C18 says of every step (stated below)
C18_Step ==
    LET e == last'.x
        t == last'.y
    IN  last'.op = "invoke.detach" =>
            /\ last'.result = "done"
            /\ \A g \in Handlers \ {t} : CallsTo(calls', g) = Count(m_handler[e], g)
            /\ CallsTo(calls', t) <= Count(m_handler[e], t)

\* C18: when a reaction called by e.invoke unsubscribes or resets its own Handler
\* or another Handler of e, the pass runs to its end, reads no position past the
\* end of the shortened list, and calls every entry of a Handler other than the
\* detached one exactly once; the detached Handler is called at most once per
\* entry it had.
C18_ReentrantDetach == [][C18_Step]_vars

\* what holds of a pass whose reaction detaches nothing that is registered: it is
\* an ordinary pass
C18_NoEraseStep ==
    (last'.op = "invoke.detach" /\ m_handler'[last'.x] = m_handler[last'.x]) =>
        /\ ~fault' /\ last'.result = "done"
        /\ [i \in 1..Len(calls') |-> calls'[i].h] = m_handler[last'.x]
C18_NoErase == [][C18_NoEraseStep]_vars

\* what holds of a pass whose reaction erased an entry: the iterators of the
\* pass were invalidated; the pass was stopped, or read a cell past the end of
\* the vector, or the erasing call was the one made for the last cell
C18_EraseStep ==
    (last'.op = "invoke.detach" /\ m_handler'[last'.x] # m_handler[last'.x]) =>
        /\ fault'
        /\ last'.result \in {"stopped", "past the end", "done"}
        /\ last'.result = "done" => Len(calls') = last'.k
C18_EraseInvalidates == [][C18_EraseStep]_vars

\* a pass over three entries whose first reaction unsubscribed its own Handler:
\* the second entry was never called and the third was called twice, the second
\* time from the cell past the end of the vector
C18_Skipped ==
    /\ last.op = "invoke.detach" /\ last.result = "past the end" /\ last.k = 3
    /\ Len(calls) = 3 /\ calls[1].h = last.y
    /\ calls[2].h = calls[3].h
    /\ \E g \in Range(m_handler[last.x]) : CallsTo(calls, g) = 0

\* the reactions a pass over an Event with entries hs calls, in its order, when
\* the Handlers own the callables fs
Reactions(hs, fs) == [i \in 1..Len(hs) |-> fs[hs[i]]]

\* what C19 says of every step (stated below)
C19_Step ==
    (\/ last'.op = "Handler.swap" /\ last'.x # last'.y
     \/ last'.op = "Handler(Handler&&)") =>
        \A e \in Events :
            Reactions(m_handler'[e], m_function') = Reactions(m_handler[e], m_function)

\* C19: move construction of a Handler from a Handler registered in an Event, and
\* swap of two distinct Handlers, leave the order in which every Event calls the
\* reactions as it was: every reaction keeps its position in the pass.
C19_MoveKeepsOrder == [][C19_Step]_vars

\* what Handler move and swap keep: the entries of the other Handlers stay in
\* their order, and the entries of the two Handlers involved are behind them
C19_OthersStep ==
    LET a == last'.x
        b == last'.y
    IN  (\/ last'.op = "Handler.swap" /\ a # b
         \/ last'.op = "Handler(Handler&&)") =>
            \A e \in Events :
                LET others == Without(Without(m_handler[e], a), b) IN
                /\ Without(Without(m_handler'[e], a), b) = others
                /\ SubSeq(m_handler'[e], 1, Len(others)) = others
C19_OthersKeepOrder == [][C19_OthersStep]_vars

\* the callables and the registration counts of a graph, on both sides
Registrations(G) ==
    [m_function |-> G.m_function,
     m_handler |-> [e \in Events |-> [h \in Handlers |-> Count(G.m_handler[e], h)]],
     m_subscribedTo |->
         [h \in Handlers |-> [e \in Events |-> Count(G.m_subscribedTo[h], e)]]]

\* what every step keeps for C20 (stated below): the graph a second swap of the
\* same two objects leaves is computed from the state after the step
C20_Step ==
    LET a == last'.x
        b == last'.y
    IN  /\ (last'.op = "Handler.swap" /\ a # b) =>
            Registrations(Handler_swap(Graph', a, b)) = Registrations(Graph)
        /\ (last'.op = "Event.swap" /\ a # b) =>
            LET G2 == Event_swap(Graph', a, b) IN
            /\ G2.m_handler = m_handler
            /\ Registrations(G2) = Registrations(Graph)

\* C20: a.swap(b) performed twice in a row on two distinct Handlers gives every
\* Handler the callable it had and every Event/Handler pair the registration
\* count it had, on both sides, before the first swap; x.swap(y) performed twice
\* on two distinct Events moreover restores the exact m_handler sequences.
C20_SwapInvolution == [][C20_Step]_vars

\* two Handlers registered with the same Event, one of them twice, have been
\* swapped twice in a row
C20_Witness ==
    /\ last.op = "Handler.swap" /\ last.x # last.y /\ last.again
    /\ \E e \in LiveEvents :
          /\ Count(m_handler[e], last.x) = 2
          /\ Count(m_handler[e], last.y) = 1

\* two Events, one listing two different Handlers, have been swapped twice in a row
C20_WitnessEvent ==
    /\ last.op = "Event.swap" /\ last.x # last.y /\ last.again
    /\ \E i, j \in 1..Len(m_handler[last.x]) : m_handler[last.x][i] # m_handler[last.x][j]

====
